---- MODULE Spec2Model ----
(***************************************************************************)
(* State-machine model of the Earthquake Data Explorer (src/app.py).       *)
(*                                                                         *)
(* Three specifications share the module:                                  *)
(*   SpecNorm  - process_earthquake_data applied to bounded payloads       *)
(*   SpecQuery - the feed query built by fetch_earthquake_data             *)
(*   Spec      - script reruns of the Streamlit session, with the          *)
(*               st.cache_data store and the clock                         *)
(*                                                                         *)
(* Numbers with one decimal (magnitudes, coordinates) are kept in tenths.  *)
(***************************************************************************)
EXTENDS Integers, Sequences, FiniteSets, TLC

VARIABLES
    nData,      \* SpecNorm: the payload handed to process_earthquake_data
    nSelected,  \* SpecNorm: the module-level selected_magnitude label
    nResult,    \* SpecNorm: outcome of the call (pending / ok / raise)
    qTime,      \* SpecQuery: time_period argument
    qMag,       \* SpecQuery: magnitude argument
    qLimit,     \* SpecQuery: limit argument
    qNow,       \* SpecQuery: datetime.now() in seconds
    qParams,    \* SpecQuery: the params dict handed to requests.get
    clock,      \* Spec: wall clock, seconds
    cache,      \* Spec: live entries of the st.cache_data store
    netLog,     \* Spec: history of network requests of the last Window seconds
    cycle       \* Spec: what the last script run did

vars == <<nData, nSelected, nResult, qTime, qMag, qLimit, qNow, qParams,
          clock, cache, netLog, cycle>>

normVars == <<nData, nSelected, nResult>>
queryVars == <<qTime, qMag, qLimit, qNow, qParams>>
sessionVars == <<clock, cache, netLog, cycle>>

----------------------------------------------------------------------------
(* JSON values: a dict member is absent, null or a number.                 *)

Absent == [k |-> "absent", v |-> 0]
Null == [k |-> "null", v |-> 0]
Num(n) == [k |-> "num", v |-> n]

IsNull(x) == x.k # "num"

(* dict.get(key): None when the key is absent *)
Get(d, key) == IF d[key].k = "absent" THEN Null ELSE d[key]

(* dict.get(key, default): the default only when the key is absent; an     *)
(* explicit null is returned as None                                       *)
GetDefault(d, key, dflt) == IF d[key].k = "absent" THEN Num(dflt) ELSE d[key]

----------------------------------------------------------------------------
(* Selection tables of the sidebar.                                        *)

time_options ==
    [l \in {"Past Hour", "Past Day", "Past 7 Days", "Past 30 Days"} |->
        CASE l = "Past Hour" -> "hour"
          [] l = "Past Day" -> "day"
          [] l = "Past 7 Days" -> "week"
          [] l = "Past 30 Days" -> "month"]

magnitude_options ==
    [l \in {"All Earthquakes", "Significant Earthquakes", "M4.5+ Earthquakes",
            "M2.5+ Earthquakes", "M1.0+ Earthquakes"} |->
        CASE l = "All Earthquakes" -> "all"
          [] l = "Significant Earthquakes" -> "significant"
          [] l = "M4.5+ Earthquakes" -> "4.5"
          [] l = "M2.5+ Earthquakes" -> "2.5"
          [] l = "M1.0+ Earthquakes" -> "1.0"]

MagnitudeLabels == DOMAIN magnitude_options
TimeLabels == DOMAIN time_options

----------------------------------------------------------------------------
(* Feed features used as inputs.                                           *)

GoodProps ==
    [k |-> "dict", mag |-> Num(61), place |-> Num(1), time |-> Num(86400123),
     url |-> Num(2), tsunami |-> Num(1), sig |-> Num(650), alert |-> Null,
     felt |-> Num(12), cdi |-> Num(43), mmi |-> Absent]

NoProps(kind) ==
    [k |-> kind, mag |-> Absent, place |-> Absent, time |-> Absent,
     url |-> Absent, tsunami |-> Absent, sig |-> Absent, alert |-> Absent,
     felt |-> Absent, cdi |-> Absent, mmi |-> Absent]

Coordinates(elems) == [k |-> "list", elems |-> elems]
Geometry(coords) == [k |-> "dict", coordinates |-> coords]
NoGeometry(kind) == [k |-> kind, coordinates |-> [k |-> "absent", elems |-> <<>>]]

GoodGeometry == Geometry(Coordinates(<<Num(-1224), Num(378), Num(102)>>))

Feature(p, g) == [properties |-> p, geometry |-> g]

WellFormedPool ==
    { Feature(GoodProps, GoodGeometry),
      Feature([GoodProps EXCEPT !.sig = Num(400), !.mag = Num(52)], GoodGeometry),
      Feature([GoodProps EXCEPT !.sig = Num(600), !.mag = Num(10)], GoodGeometry),
      Feature([GoodProps EXCEPT !.mag = Absent], GoodGeometry),
      Feature([GoodProps EXCEPT !.mag = Null], GoodGeometry),
      Feature([GoodProps EXCEPT !.sig = Absent, !.time = Absent, !.tsunami = Absent],
              Geometry(Coordinates(<<Num(-1224), Num(378)>>))),
      Feature([GoodProps EXCEPT !.sig = Null], GoodGeometry),
      Feature(GoodProps, Geometry(Coordinates(<<Num(-1224)>>))),
      Feature(GoodProps, Geometry(Coordinates(<<>>))),
      Feature(GoodProps, Geometry(Coordinates(<<Null, Num(378), Num(102)>>))),
      Feature(GoodProps, Geometry(Coordinates(<<Num(-1224), Null, Num(102)>>))) }

MalformedPool ==
    { Feature(NoProps("absent"), GoodGeometry),
      Feature(NoProps("null"), GoodGeometry),
      Feature(GoodProps, NoGeometry("absent")),
      Feature(GoodProps, NoGeometry("null")),
      Feature(GoodProps, Geometry([k |-> "absent", elems |-> <<>>])),
      Feature(GoodProps, Geometry([k |-> "null", elems |-> <<>>])),
      Feature([GoodProps EXCEPT !.time = Null], GoodGeometry) }

FeaturePool == WellFormedPool \cup MalformedPool

MaxFeatures == 3

SeqsUpTo(S, n) == UNION { [1..m -> S] : m \in 0..n }

(* A payload: None, or a JSON object with `others` members besides an      *)
(* optional 'features' list.                                               *)
NoneData == [k |-> "none", others |-> 0, hasFeatures |-> FALSE, features |-> <<>>]
Doc(others, feats) == [k |-> "doc", others |-> others, hasFeatures |-> TRUE, features |-> feats]
DocNoFeatures(others) == [k |-> "doc", others |-> others, hasFeatures |-> FALSE, features |-> <<>>]

Payloads ==
    {NoneData, DocNoFeatures(0), DocNoFeatures(2)}
        \cup { Doc(2, fs) : fs \in SeqsUpTo(FeaturePool, MaxFeatures) }

----------------------------------------------------------------------------
(* process_earthquake_data                                                 *)

(* `not data`: None and the empty JSON object are falsy *)
Falsy(data) ==
    \/ data.k = "none"
    \/ data.k = "doc" /\ ~data.hasFeatures /\ data.others = 0

(* datetime.fromtimestamp(ms / 1000): seconds and microseconds *)
FromTimestampMillis(ms) == [sec |-> ms \div 1000, usec |-> (ms % 1000) * 1000]

(* coords[i] if len(coords) > i else None (i counted from 0) *)
CoordAt(coords, i) == IF Len(coords.elems) > i THEN coords.elems[i + 1] ELSE Null

(* The exception one loop iteration raises, "" when it raises none; the    *)
(* statements are evaluated in source order.                               *)
FeatureError(feature) ==
    LET props == feature.properties
        geom == feature.geometry
    IN  IF props.k = "absent" THEN "KeyError"                 \* feature['properties']
        ELSE IF geom.k = "absent" THEN "KeyError"             \* feature['geometry']
        ELSE IF geom.k = "null" THEN "TypeError"              \* None['coordinates']
        ELSE IF geom.coordinates.k = "absent" THEN "KeyError" \* [...]['coordinates']
        ELSE IF props.k = "null" THEN "AttributeError"        \* None.get('mag')
        ELSE IF props.time.k = "null" THEN "TypeError"        \* None / 1000
        ELSE IF geom.coordinates.k = "null" THEN "TypeError"  \* len(None)
        ELSE ""

(* The dict built for one feature *)
Earthquake(feature) ==
    LET props == feature.properties
        coords == feature.geometry.coordinates
    IN  [magnitude |-> Get(props, "mag"),
         place |-> Get(props, "place"),
         time |-> FromTimestampMillis(GetDefault(props, "time", 0).v),
         longitude |-> CoordAt(coords, 0),
         latitude |-> CoordAt(coords, 1),
         depth |-> CoordAt(coords, 2),
         url |-> Get(props, "url"),
         tsunami |-> GetDefault(props, "tsunami", 0),
         significance |-> GetDefault(props, "sig", 0),
         alert |-> Get(props, "alert"),
         felt |-> GetDefault(props, "felt", 0),
         cdi |-> Get(props, "cdi"),
         mmi |-> Get(props, "mmi")]

EarthquakeColumns ==
    {"magnitude", "place", "time", "longitude", "latitude", "depth", "url",
     "tsunami", "significance", "alert", "felt", "cdi", "mmi"}

(* Faulty variant of the append: the new dict is put in front *)
PrependEarthquake(earthquakes, earthquake) == <<earthquake>> \o earthquakes

(* earthquakes.append(earthquake) *)
AppendEarthquake(earthquakes, earthquake) == Append(earthquakes, earthquake)

(* The list after the first n iterations of the loop over data['features'] *)
RECURSIVE Earthquakes(_, _)
Earthquakes(features, n) ==
    IF n = 0 THEN <<>>
    ELSE AppendEarthquake(Earthquakes(features, n - 1), Earthquake(features[n]))

(* The first exception the loop raises, "" when it completes *)
RECURSIVE LoopError(_, _)
LoopError(features, i) ==
    IF i > Len(features) THEN ""
    ELSE IF FeatureError(features[i]) # "" THEN FeatureError(features[i])
    ELSE LoopError(features, i + 1)

(* pd.DataFrame(list of dicts): the columns are the dicts' keys, so an     *)
(* empty list gives a frame without columns; the index is the position.    *)
DataFrame(earthquakes) ==
    [columns |-> IF earthquakes = <<>> THEN {} ELSE EarthquakeColumns,
     rows |-> [i \in 1..Len(earthquakes) |-> [idx |-> i - 1, rec |-> earthquakes[i]]]]

EmptyDataFrame == [columns |-> {}, rows |-> <<>>]

(* Faulty variant of the dropna subset: latitude is not required *)
DropnaSubsetNoLatitude == {"magnitude", "longitude"}

DropnaSubset == {"magnitude", "longitude", "latitude"}

(* df.dropna(subset=...): KeyError when a subset label is no column *)
DropnaError(df, subset) == IF subset \subseteq df.columns THEN "" ELSE "KeyError"

Dropna(df, subset) ==
    LET Keep(r) == \A c \in subset : ~IsNull(r.rec[c])
    IN  [df EXCEPT !.rows = SelectSeq(df.rows, Keep)]

SignificanceThreshold == 600

(* Faulty variant of the mask comparison: strictly greater *)
SignificantStrict(sig) == ~IsNull(sig) /\ sig.v > SignificanceThreshold

(* df['significance'] >= 600; a missing value compares False *)
Significant(sig) == ~IsNull(sig) /\ sig.v >= SignificanceThreshold

SignificantOnly(df) ==
    LET Keep(r) == Significant(r.rec.significance)
    IN  [df EXCEPT !.rows = SelectSeq(df.rows, Keep)]

Raise(exc) == [status |-> "raise", exc |-> exc, rows |-> <<>>]
Return(df) == [status |-> "ok", exc |-> "", rows |-> df.rows]
Pending == [status |-> "pending", exc |-> "", rows |-> <<>>]

process_earthquake_data(data, selected_magnitude) ==
    IF Falsy(data) \/ ~data.hasFeatures THEN Return(EmptyDataFrame)
    ELSE IF LoopError(data.features, 1) # "" THEN Raise(LoopError(data.features, 1))
    ELSE LET df == DataFrame(Earthquakes(data.features, Len(data.features)))
         IN  IF DropnaError(df, DropnaSubset) # "" THEN Raise(DropnaError(df, DropnaSubset))
             ELSE IF selected_magnitude = "Significant Earthquakes"
                  THEN Return(SignificantOnly(Dropna(df, DropnaSubset)))
                  ELSE Return(Dropna(df, DropnaSubset))

----------------------------------------------------------------------------
(* fetch_earthquake_data: the query                                        *)

SecondsPerDay == 86400

(* Faulty variant of the days argument: 1/24 taken by integer division *)
TimedeltaDaysIntDiv(time_period) ==
    IF time_period = "month" THEN [num |-> 30, den |-> 1]
    ELSE IF time_period = "week" THEN [num |-> 7, den |-> 1]
    ELSE IF time_period = "day" THEN [num |-> 1, den |-> 1]
    ELSE [num |-> 0, den |-> 1]

(* 30 if month else 7 if week else 1 if day else 1/24, as a fraction *)
TimedeltaDays(time_period) ==
    IF time_period = "month" THEN [num |-> 30, den |-> 1]
    ELSE IF time_period = "week" THEN [num |-> 7, den |-> 1]
    ELSE IF time_period = "day" THEN [num |-> 1, den |-> 1]
    ELSE [num |-> 1, den |-> 24]

(* timedelta(days=d) in seconds *)
TimedeltaSeconds(days) == (days.num * SecondsPerDay) \div days.den

(* datetime.isoformat(): the instant split into its printed fields *)
IsoFormat(t) ==
    [day |-> t \div SecondsPerDay,
     hour |-> (t % SecondsPerDay) \div 3600,
     minute |-> (t % 3600) \div 60,
     second |-> t % 60]

NoStartTime == [k |-> "absent", v |-> IsoFormat(0)]
StartTime(t) == [k |-> "str", v |-> IsoFormat(t)]

(* The characters of the magnitude option values that reach float() *)
Chars(magnitude) ==
    CASE magnitude = "4.5" -> <<"4", ".", "5">>
      [] magnitude = "2.5" -> <<"2", ".", "5">>
      [] magnitude = "1.0" -> <<"1", ".", "0">>

Digit(c) ==
    CASE c = "0" -> 0 [] c = "1" -> 1 [] c = "2" -> 2 [] c = "3" -> 3 [] c = "4" -> 4
      [] c = "5" -> 5 [] c = "6" -> 6 [] c = "7" -> 7 [] c = "8" -> 8 [] c = "9" -> 9

(* Faulty variant of float(magnitude): the fraction digit is lost *)
FloatTruncated(magnitude) == Digit(Chars(magnitude)[1]) * 10

(* float(magnitude) of a "d.d" string, in tenths *)
Float(magnitude) == Digit(Chars(magnitude)[1]) * 10 + Digit(Chars(magnitude)[3])

(* No query built *)
NoParams == [format |-> "", limit |-> 0, orderby |-> "",
             starttime |-> NoStartTime, minmagnitude |-> Absent]

(* The params dict handed to requests.get; now is datetime.now() *)
BuildParams(time_period, magnitude, limit, now) ==
    [format |-> "geojson",
     limit |-> limit,
     orderby |-> "time",
     starttime |->
        IF time_period # "all"
        THEN StartTime(now - TimedeltaSeconds(TimedeltaDays(time_period)))
        ELSE NoStartTime,
     minmagnitude |->
        IF magnitude # "all" /\ magnitude # "significant"
        THEN Num(Float(magnitude))
        ELSE Absent]

----------------------------------------------------------------------------
(* The st.cache_data store around fetch_earthquake_data, and one script    *)
(* run of the session.                                                     *)

ttl == 300

(* Faulty variant of the cache key: the limit argument is left out *)
CacheKeyNoLimit(time_period, magnitude, limit) == <<time_period, magnitude, 0>>

(* The key of a cached call: the full argument tuple *)
CacheKey(time_period, magnitude, limit) == <<time_period, magnitude, limit>>

(* An entry answers calls until it is ttl seconds old *)
Live(entry, now) == now - entry.at < ttl

(* The entries of a store that still answer calls at `now` *)
LiveEntries(store, now) ==
    [key \in {x \in DOMAIN store : Live(store[x], now)} |-> store[key]]

(* A transport outcome: raise_for_status passed and the body parsed, or a  *)
(* RequestException (timeout, connection error, non-2xx status)            *)
TransportFailure == [ok |-> FALSE, body |-> NoneData]
TransportSuccess(body) == [ok |-> TRUE, body |-> body]

(* The value the body of fetch_earthquake_data returns for an outcome *)
FetchReturn(response) == IF response.ok THEN response.body ELSE NoneData

(* if earthquake_data: *)
Truthy(data) == ~Falsy(data)

(* The page the script run ends on *)
Page(data, result) ==
    IF ~Truthy(data) THEN "fetch_error"
    ELSE IF result.status = "raise" THEN "exception"
    ELSE IF result.rows # <<>> THEN "dashboard"
    ELSE "no_data"

NoPrior == [k |-> "none", at |-> 0, ok |-> FALSE, data |-> NoneData]
Prior(entry) == [k |-> "some", at |-> entry.at, ok |-> entry.ok, data |-> entry.data]

NoCycle ==
    [ran |-> FALSE, at |-> 0, key |-> <<"", "", 0>>, selected |-> "", requests |-> 0,
     transport |-> "none", prior |-> NoPrior, data |-> NoneData,
     processed |-> FALSE, result |-> Pending, page |-> "", params |-> NoParams]

----------------------------------------------------------------------------
(* Idle values of the variables a specification does not use.              *)

NormIdle == nData = NoneData /\ nSelected = "All Earthquakes" /\ nResult = Pending
SessionIdle == clock = 0 /\ cache = << >> /\ netLog = << >> /\ cycle = NoCycle
QueryIdle == qTime = "all" /\ qMag = "all" /\ qLimit = 0 /\ qNow = 0 /\ qParams = NoParams

----------------------------------------------------------------------------
(* SpecNorm: one call of process_earthquake_data on a drawn payload, with  *)
(* the module-level selected_magnitude drawn from the selectbox labels.    *)

Normalize ==
    /\ nResult.status = "pending"
    /\ nResult' = process_earthquake_data(nData, nSelected)
    /\ UNCHANGED <<nData, nSelected>>
    /\ UNCHANGED <<queryVars, sessionVars>>

InitNorm ==
    /\ nData \in Payloads
    /\ nSelected \in MagnitudeLabels
    /\ nResult = Pending
    /\ QueryIdle
    /\ SessionIdle

NextNorm == Normalize

SpecNorm == InitNorm /\ [][NextNorm]_vars

----------------------------------------------------------------------------
(* SpecQuery: the query fetch_earthquake_data builds for drawn arguments.  *)

TimePeriods == {"all", "hour", "day", "week", "month"}
Magnitudes == {"all", "significant", "4.5", "2.5", "1.0"}
Limits == {10, 100, 1000}
Nows == {31 * SecondsPerDay + 3661, 400 * SecondsPerDay + 86399}

BuildQuery ==
    /\ qParams = NoParams
    /\ qParams' = BuildParams(qTime, qMag, qLimit, qNow)
    /\ UNCHANGED <<qTime, qMag, qLimit, qNow>>
    /\ UNCHANGED <<normVars, sessionVars>>

InitQuery ==
    /\ qTime \in TimePeriods
    /\ qMag \in Magnitudes
    /\ qLimit \in Limits
    /\ qNow \in Nows
    /\ qParams = NoParams
    /\ NormIdle
    /\ SessionIdle

NextQuery == BuildQuery

SpecQuery == InitQuery /\ [][NextQuery]_vars

----------------------------------------------------------------------------
(* Spec: the session. Every widget interaction reruns the script from top  *)
(* to bottom; the clock advances between runs.                             *)

(* The widget settings the runs choose among: selectbox labels and slider *)
Selections ==
    { <<"Past 7 Days", "Significant Earthquakes", 100>>,
      <<"Past 7 Days", "Significant Earthquakes", 10>>,
      <<"Past Day", "M4.5+ Earthquakes", 100>> }

Responses ==
    { TransportFailure,
      TransportSuccess(DocNoFeatures(0)),
      TransportSuccess(Doc(2, <<>>)),
      TransportSuccess(Doc(2,
          <<Feature([GoodProps EXCEPT !.sig = Num(400), !.mag = Num(52)], GoodGeometry)>>)) }

(* datetime.now() when the session opens *)
SessionStart == 400 * SecondsPerDay + 3661

TickStep == 150
MaxTicks == 3
CacheWindow == 300

(* The requests of the last CacheWindow seconds, by argument tuple *)
RecentRequests(log, now) ==
    [key \in {x \in DOMAIN log : now - log[x].at < CacheWindow} |-> log[key]]

(* One script run: lines 31-44 read the widgets, 117-122 call the cached   *)
(* fetch_earthquake_data, 124-287 render.                                  *)
Rerun(selected_time, selected_magnitude, max_results, response) ==
    LET time_period == time_options[selected_time]
        magnitude == magnitude_options[selected_magnitude]
        args == <<time_period, magnitude, max_results>>
        key == CacheKey(time_period, magnitude, max_results)
        hit == key \in DOMAIN cache /\ Live(cache[key], clock)
        data == IF hit THEN cache[key].data ELSE FetchReturn(response)
        result == IF Truthy(data)
                  THEN process_earthquake_data(data, selected_magnitude)
                  ELSE Pending
    IN  /\ cache' = IF hit THEN cache
                    ELSE (key :> [at |-> clock, data |-> data]) @@ cache
        /\ netLog' = IF hit THEN netLog
                     ELSE (args :> [at |-> clock, ok |-> response.ok, data |-> data]) @@ netLog
        /\ cycle' =
            [ran |-> TRUE,
             at |-> clock,
             key |-> args,
             selected |-> selected_magnitude,
             requests |-> IF hit THEN 0 ELSE 1,
             transport |-> IF hit THEN "none" ELSE IF response.ok THEN "ok" ELSE "fail",
             prior |-> IF args \in DOMAIN netLog THEN Prior(netLog[args]) ELSE NoPrior,
             data |-> data,
             processed |-> Truthy(data),
             result |-> result,
             page |-> Page(data, result),
             params |-> IF hit THEN NoParams
                        ELSE BuildParams(time_period, magnitude, max_results, clock)]
        /\ UNCHANGED clock
        /\ UNCHANGED <<normVars, queryVars>>

Interact ==
    \E selection \in Selections, response \in Responses :
        Rerun(selection[1], selection[2], selection[3], response)

(* Time passes between two interactions; entries that reached ttl are gone *)
Tick ==
    /\ clock + TickStep <= SessionStart + MaxTicks * TickStep
    /\ clock' = clock + TickStep
    /\ cache' = LiveEntries(cache, clock')
    /\ netLog' = RecentRequests(netLog, clock')
    /\ UNCHANGED cycle
    /\ UNCHANGED <<normVars, queryVars>>

Init ==
    /\ clock = SessionStart
    /\ cache = << >>
    /\ netLog = << >>
    /\ cycle = NoCycle
    /\ NormIdle
    /\ QueryIdle

Next == Interact \/ Tick

Spec == Init /\ [][Next]_vars

----------------------------------------------------------------------------
(* Properties of process_earthquake_data (SpecNorm), stated on the raw     *)
(* feed features.                                                          *)

Features == nData.features

(* A feature whose row can be built: properties and geometry are objects,  *)
(* coordinates is a list, time is not an explicit null                     *)
WellFormed(f) ==
    /\ f.properties.k = "dict"
    /\ f.geometry.k = "dict"
    /\ f.geometry.coordinates.k = "list"
    /\ f.properties.time.k # "null"

(* A well-formed feature with magnitude, longitude and latitude *)
HasRequired(f) ==
    /\ WellFormed(f)
    /\ f.properties.mag.k = "num"
    /\ Len(f.geometry.coordinates.elems) >= 2
    /\ f.geometry.coordinates.elems[1].k = "num"
    /\ f.geometry.coordinates.elems[2].k = "num"

(* The feed's significance score is at least 600 (absent counts as 0) *)
SigAtLeast600(f) == f.properties.sig.k = "num" /\ f.properties.sig.v >= 600

(* The feed positions (from 0) of the rows returned *)
RowIdx == { nResult.rows[i].idx : i \in 1..Len(nResult.rows) }

(* The feed positions the claims expect in the output *)
Expected ==
    { j - 1 : j \in { x \in 1..Len(Features) :
        /\ HasRequired(Features[x])
        /\ nSelected = "Significant Earthquakes" => SigAtLeast600(Features[x]) } }

(* C1: every row returned has non-null magnitude, longitude and latitude,  *)
(* and a feature lacking one of them (mag absent or null, fewer than two   *)
(* coordinates, null longitude or latitude) has no row in the output.      *)
C1_RequiredFieldsPresent ==
    nResult.status = "ok" =>
        /\ \A i \in 1..Len(nResult.rows) :
            /\ nResult.rows[i].rec.magnitude.k = "num"
            /\ nResult.rows[i].rec.longitude.k = "num"
            /\ nResult.rows[i].rec.latitude.k = "num"
        /\ \A j \in 1..Len(Features) :
            ~HasRequired(Features[j]) => (j - 1) \notin RowIdx

C1_Witness ==
    /\ nResult.status = "ok"
    /\ Len(nResult.rows) >= 1
    /\ \E j \in 1..Len(Features) :
        /\ Len(Features[j].geometry.coordinates.elems) = 1
        /\ (j - 1) \notin RowIdx
    /\ \E j \in 1..Len(Features) :
        /\ Features[j].properties.mag.k = "null"
        /\ (j - 1) \notin RowIdx

(* C2: a call that returns gives exactly the rows of the features that     *)
(* have magnitude, longitude and latitude, and, only when the selection is *)
(* "Significant Earthquakes", a significance of at least 600; no other     *)
(* filter is applied.                                                      *)
C2_SignificanceOnlyWhenSelected ==
    nResult.status = "ok" =>
        /\ RowIdx = Expected
        /\ Len(nResult.rows) = Cardinality(Expected)

C2_Witness ==
    /\ nResult.status = "ok"
    /\ nSelected = "Significant Earthquakes"
    /\ \E j \in 1..Len(Features) :
        /\ HasRequired(Features[j])
        /\ Features[j].properties.sig = Num(650)
        /\ (j - 1) \in RowIdx
    /\ \E j \in 1..Len(Features) :
        /\ HasRequired(Features[j])
        /\ Features[j].properties.sig = Num(400)
        /\ (j - 1) \notin RowIdx

(* C6: for a feature list holding a malformed feature the call does not    *)
(* raise: the malformed feature is skipped and every well-formed feature   *)
(* that passes the filters still has its row.                              *)
C6_MalformedFeatureSkipped ==
    ( /\ nResult.status # "pending"
      /\ nData.hasFeatures
      /\ \E j \in 1..Len(Features) : ~WellFormed(Features[j]) )
    => /\ nResult.status = "ok"
       /\ RowIdx = Expected

(* C10: the rows returned are a subsequence of the feed: each row is the   *)
(* row of the feature at its index, and the indexes strictly increase, so  *)
(* relative order is kept and no feature appears twice.                    *)
C10_FeedOrderPreserved ==
    nResult.status = "ok" =>
        /\ \A i \in 1..Len(nResult.rows) :
            /\ nResult.rows[i].idx + 1 \in 1..Len(Features)
            /\ nResult.rows[i].rec = Earthquake(Features[nResult.rows[i].idx + 1])
        /\ \A i, k \in 1..Len(nResult.rows) :
            i < k => nResult.rows[i].idx < nResult.rows[k].idx

C10_Witness ==
    /\ nResult.status = "ok"
    /\ Len(Features) = 3
    /\ Len(nResult.rows) = 2
    /\ nResult.rows[1].idx = 0
    /\ nResult.rows[2].idx = 2
    /\ nResult.rows[1].rec # nResult.rows[2].rec

----------------------------------------------------------------------------
(* Properties of the feed query (SpecQuery).                               *)

QueryBuilt == qParams # NoParams

(* C8: minmagnitude is sent exactly for the options 4.5, 2.5 and 1.0, with *)
(* that value; it is omitted for all and significant; limit is the         *)
(* requested limit.                                                        *)
C8_MinMagnitudeTranslation ==
    QueryBuilt =>
        /\ (qParams.minmagnitude.k = "num") <=> (qMag \in {"4.5", "2.5", "1.0"})
        /\ qMag = "4.5" => qParams.minmagnitude = Num(45)
        /\ qMag = "2.5" => qParams.minmagnitude = Num(25)
        /\ qMag = "1.0" => qParams.minmagnitude = Num(10)
        /\ qMag \in {"all", "significant"} => qParams.minmagnitude = Absent
        /\ qParams.limit = qLimit

C8_Witness ==
    /\ QueryBuilt
    /\ qMag = "4.5"
    /\ qParams.minmagnitude = Num(45)
    /\ qParams.limit = 1000

(* C9: starttime is now minus 1 hour, 1 day, 7 days and 30 days for hour,  *)
(* day, week and month, and is omitted for all.                            *)
C9_StartTimeTranslation ==
    QueryBuilt =>
        /\ qTime = "hour" => qParams.starttime = StartTime(qNow - 3600)
        /\ qTime = "day" => qParams.starttime = StartTime(qNow - 24 * 3600)
        /\ qTime = "week" => qParams.starttime = StartTime(qNow - 7 * 24 * 3600)
        /\ qTime = "month" => qParams.starttime = StartTime(qNow - 30 * 24 * 3600)
        /\ qTime = "all" => qParams.starttime = NoStartTime
        /\ (qParams.starttime.k = "str") <=> (qTime \in {"hour", "day", "week", "month"})

C9_Witness ==
    /\ QueryBuilt
    /\ qTime = "hour"
    /\ qParams.starttime.k = "str"
    /\ qParams.starttime.v.hour = ((qNow - 3600) % 86400) \div 3600

----------------------------------------------------------------------------
(* Properties of the session (Spec).                                       *)

(* C3: a fetched payload whose feature list is empty is processed without  *)
(* an error into an empty record set, and the run ends on the "no data for *)
(* these criteria" page.                                                   *)
C3_EmptyFeatureListIsNoData ==
    ( /\ cycle.ran
      /\ cycle.data.k = "doc"
      /\ cycle.data.hasFeatures
      /\ cycle.data.features = <<>> )
    => /\ cycle.result.status = "ok"
       /\ cycle.result.rows = <<>>
       /\ cycle.page = "no_data"

(* C4: a call whose argument tuple was requested from the feed less than   *)
(* 300 seconds ago issues no network request and returns the payload of    *)
(* that request; a call whose tuple was not requested within the last 300  *)
(* seconds (another tuple, or an aged entry) issues exactly one request.   *)
C4_OneRequestWithinTtl ==
    cycle.ran =>
        IF cycle.prior.k = "some"
        THEN /\ cycle.at - cycle.prior.at < 300
             /\ cycle.requests = 0
             /\ cycle.data = cycle.prior.data
        ELSE cycle.requests = 1

C4_Witness ==
    /\ cycle.ran
    /\ cycle.prior.k = "some"
    /\ cycle.prior.ok
    /\ cycle.at > cycle.prior.at
    /\ cycle.requests = 0
    /\ cycle.data = cycle.prior.data

(* C5: a run that calls the feed ends on the fetch-error page if and only  *)
(* if the transport call failed; a successful fetch always has its payload *)
(* passed to process_earthquake_data and a failed one never has.           *)
C5_FetchErrorIffTransportFails ==
    (cycle.ran /\ cycle.requests = 1) =>
        /\ (cycle.page = "fetch_error") <=> (cycle.transport = "fail")
        /\ cycle.transport = "ok" => cycle.processed
        /\ cycle.transport = "fail" => ~cycle.processed

(* C7: a failed fetch issued exactly one request, and an interaction with  *)
(* the argument tuple of a failed fetch issues a new network request.      *)
C7_FailureRetriggersFetch ==
    cycle.ran =>
        /\ cycle.transport = "fail" => cycle.requests = 1
        /\ (cycle.prior.k = "some" /\ ~cycle.prior.ok) => cycle.requests = 1

====
